---- MODULE Spec2Model ----
(***************************************************************************)
(* Net Fail background service worker (src/src/background.ts).             *)
(*                                                                         *)
(* The worker is single-threaded: a listener runs until its next `await`.  *)
(* Every action below is one such turn: the code from the delivery of an   *)
(* event (or from the resumption after an await) up to the next await.     *)
(* A chrome.storage.local / chrome.action call is sent to the browser in   *)
(* the turn that makes it and the browser applies the calls in the order   *)
(* they were sent, so the call's effect on the durable state is taken at   *)
(* the point of the call (a read returns the value of that point); the     *)
(* awaiting listener resumes in a later turn, after any number of other    *)
(* turns.                                                                  *)
(***************************************************************************)
EXTENDS Integers, Sequences, FiniteSets, TLC

(***************************************************************************)
(* Bounds of the model.                                                    *)
(***************************************************************************)
\* MAX_STORED_REQUESTS is 500 in src/unnamed/part_000:11; the model scales
\* the capacity down so that the store fills up within the event budget.
MAX_STORED_REQUESTS == 2
\* Number of events (header events, terminal events, messages) the
\* environment delivers in a run.
MaxEvents == 3
\* Number of times the worker is terminated and started again.
MaxRestarts == 1
\* Number of terminal events delivered in a run of SpecRecords.
MaxRecordEvents == 2
\* Events delivered in a behaviour of SpecOverlap.
MaxOverlapEvents == 4
\* MAX_STORED_REQUESTS as the build has it: the longest list the store
\* holds when initializeBadge reads it (SpecBadge).
MaxStoreLength == 500
\* Events delivered in a behaviour of SpecClear.
MaxClearEvents == 4
\* Events delivered in a behaviour of SpecFailures.
MaxFailureEvents == 3
\* The latest reading of the clock in a behaviour of SpecClock (readings
\* are 1..MaxClock milliseconds).
MaxClock == 2

(***************************************************************************)
(* Values.  A JavaScript object or Map is a function whose domain is the   *)
(* set of keys it has; an absent key (`undefined`) is a key outside the    *)
(* domain.                                                                 *)
(***************************************************************************)
RequestIds == {"r1", "r2"}

\* The empty object {} / the empty Map.
EmptyObject == [k \in {} |-> <<>>]

\* Header arrays (RequestHeaders / ResponseHeaders of ./types).
HA1 == <<[name |-> "X-A", value |-> "1"]>>
HA2 == <<[name |-> "X-A", value |-> "2"]>>
HB1 == <<[name |-> "X-B", value |-> "1"]>>
\* The header part of the `details` of a header event as the host delivers
\* it: the array may be absent.
RequestHeaderDetails ==
    {EmptyObject} \cup {[requestHeaders |-> h] : h \in {<<>>, HA1, HA2}}
ResponseHeaderDetails ==
    {EmptyObject} \cup {[responseHeaders |-> h] : h \in {HB1}}

\* URLs are strings: sequences of characters.
UrlHttps == <<"h","t","t","p","s",":","/","/","a">>
UrlAbout == <<"a","b","o","u","t",":","b">>
Urls == {UrlHttps, UrlAbout}
\* More URLs of terminal events.  A value that is not a string is written
\* as a one-element tuple naming its type.
UrlChromeExtension ==
    <<"c","h","r","o","m","e","-","e","x","t","e","n","s","i","o","n",":","/","/","i">>
UrlChrome == <<"c","h","r","o","m","e",":","/","/","s">>
UrlMozExtension ==
    <<"m","o","z","-","e","x","t","e","n","s","i","o","n",":","/","/","i">>
UrlChromium == <<"c","h","r","o","m","e",".","c","o","m">>
UrlEmpty == <<>>
UrlObject == <<"typeof object">>
AllUrls == {UrlHttps, UrlAbout, UrlChromeExtension, UrlChrome,
            UrlMozExtension, UrlChromium, UrlEmpty, UrlObject}
\* typeof v === 'string'
IsString(v) == v # UrlObject

StatusCodes == {399, 400}

\* JavaScript null in the statusCode field (an integer no HTTP status is).
Null == -1

\* pendingFlushTimer = null (timer ids are positive).
NoTimer == 0

VARIABLES
    store,              \* chrome.storage.local[STORAGE_KEY_REQUESTS]
    mirror,             \* chrome.storage.local[STORAGE_KEY_PENDING_HEADERS]
    badgeText,          \* chrome.action badge text
    badgeColor,         \* chrome.action badge background colour
    headerCache,        \* const headerCache
    pendingMap,         \* let pendingMap
    pendingFlushTimer,  \* let pendingFlushTimer (a timer id or NoTimer)
    timers,             \* the host's armed timers (setTimeout ids)
    init,               \* the initialize() call of this worker run
    th,                 \* per requestId: the terminal-event listener in flight
    msg,                \* the onMessage handler in flight
    response,           \* the channel of the last message: kept open,
                        \* responses delivered, the last one
    budget,             \* events the environment may still deliver
    hist,               \* history: per requestId what the header events
                        \* since its last terminal event delivered
    atCrash,            \* history: per requestId the in-memory entry that
                        \* a termination of the worker destroyed
    consumed,           \* history: requestIds whose consume has completed
    finished,           \* history: requestIds whose terminal listener ended
    written,            \* history: records whose store write was issued
    preClear,           \* history: records in the store when it was cleared
    sinceClear          \* history: whether no terminal listener ran or
                        \* started since a clear was received / answered

vars == <<store, mirror, badgeText, badgeColor, headerCache, pendingMap,
          pendingFlushTimer, timers, init, th, msg, response, budget, hist,
          atCrash, consumed, finished, written, preClear, sinceClear>>

(***************************************************************************)
(* Pure helpers.                                                           *)
(***************************************************************************)
Range(s) == {s[i] : i \in 1..Len(s)}

\* m[k] ?? {}
GetOrEmpty(m, k) == IF k \in DOMAIN m THEN m[k] ELSE EmptyObject
\* m[k] = v / map.set(k, v)
MapSet(m, k, v) == [x \in DOMAIN m \cup {k} |-> IF x = k THEN v ELSE m[x]]
\* delete m[k] / map.delete(k)
MapDelete(m, k) == [x \in DOMAIN m \ {k} |-> m[x]]
\* Object spread { ...a, ...b }: b's keys overlay a's.
Spread(a, b) ==
    [k \in DOMAIN a \cup DOMAIN b |-> IF k \in DOMAIN b THEN b[k] ELSE a[k]]

\* details.requestHeaders ?? [] (and the same for responseHeaders)
HeadersOrUndefined(details, field) ==
    IF field \in DOMAIN details THEN details[field]
    ELSE <<[name |-> "undefined", value |-> "undefined"]>>
HeadersOrEmpty(details, field) ==
    IF field \in DOMAIN details THEN details[field] ELSE <<>>

\* The guard of onSendHeaders: existing?.requestHeaders?.length is truthy.
HasRequestHeadersNever(cache, requestId) == FALSE
HasRequestHeaders(cache, requestId) ==
    /\ requestId \in DOMAIN cache
    /\ "requestHeaders" \in DOMAIN cache[requestId]
    /\ Len(cache[requestId].requestHeaders) > 0

\* String.prototype.startsWith
StartsWith(s, p) == Len(s) >= Len(p) /\ SubSeq(s, 1, Len(p)) = p
PrefixChromeExtension ==
    <<"c","h","r","o","m","e","-","e","x","t","e","n","s","i","o","n",":","/","/">>
PrefixChrome == <<"c","h","r","o","m","e",":","/","/">>
PrefixAbout == <<"a","b","o","u","t",":">>
PrefixMozExtension ==
    <<"m","o","z","-","e","x","t","e","n","s","i","o","n",":","/","/">>
\* storeFailedRequest's validation of requestData: TRUE when it returns
\* without storing.
UrlRejectedNever(requestData) == FALSE
UrlRejected(requestData) ==
    \/ "url" \notin DOMAIN requestData
    \/ requestData.url = <<>>
    \/ ~IsString(requestData.url)
    \/ StartsWith(requestData.url, PrefixChromeExtension)
    \/ StartsWith(requestData.url, PrefixChrome)
    \/ StartsWith(requestData.url, PrefixAbout)
    \/ StartsWith(requestData.url, PrefixMozExtension)

\* The condition of onCompleted: details.statusCode >= 400.
QualifiesAlways(statusCode) == TRUE
Qualifies(statusCode) == statusCode >= 400

\* failedRequests.unshift(requestData)
Push(list, requestData) == list \o <<requestData>>
Unshift(list, requestData) == <<requestData>> \o list
\* if (failedRequests.length > MAX_STORED_REQUESTS) failedRequests.length = ...
EnforceMaxLimitOff(list) == list
EnforceMaxLimit(list) ==
    IF Len(list) > MAX_STORED_REQUESTS
    THEN SubSeq(list, 1, MAX_STORED_REQUESTS)
    ELSE list

\* The list clearFailedRequests writes in place of `list`: [].
ClearedListKeeps(list) == list
ClearedList(list) == <<>>

\* updateBadgeCount's text and colour.
BadgeTextOfUncapped(count) == IF count > 0 THEN ToString(count) ELSE ""
BadgeTextOf(count) ==
    IF count > 0 THEN (IF count > 99 THEN "99+" ELSE ToString(count)) ELSE ""
BadgeColorOf(count) == IF count > 0 THEN "#e74c3c" ELSE "#888888"

(***************************************************************************)
(* Listener states.                                                        *)
(***************************************************************************)
IdleListener == [pc |-> "idle"]
\* The command channel before any message.
NoResponse == [pending |-> FALSE, answers |-> 0, value |-> EmptyObject]
\* The history of a requestId no header event was delivered for:
\* lastPrimary is <<>> or <<h>> for the last array h of the primary
\* channel, primaryNonEmpty the non-empty arrays of the primary channel,
\* fallback the arrays of the fallback channel, merged the overlay of the
\* patches that updatePendingHeaders applied, overlap whether one of the
\* header events was handled while a terminal listener of the requestId
\* was in flight, during what is left in merged of the patches applied
\* while a terminal listener of another requestId was in flight,
\* beforeClear what is left in merged of the patches applied before the
\* last clearFailedRequests was received.
NoHistory ==
    [seen |-> FALSE, lastPrimary |-> <<>>, primaryNonEmpty |-> {},
     fallback |-> {}, merged |-> EmptyObject, overlap |-> FALSE,
     during |-> EmptyObject, beforeClear |-> EmptyObject]
\* initialize() right after the module was evaluated: readPendingHeaders()
\* has issued its storage read, which returns the mirror m.
StartedInit(m) == [pc |-> "read", stored |-> m]
\* initialize() has run to its end.
Initialized == [pc |-> "done"]

\* No clear was handled yet, or a terminal event followed the last one:
\* received says that a clear was received and no terminal listener was
\* running then or started since; answered that a clear answered
\* {success: true} and no terminal listener was running then or started
\* since; whole that the clear that answered was received with no terminal
\* listener running and none started since.
NoClear == [received |-> FALSE, answered |-> FALSE, whole |-> FALSE]
NoTerminalListener == \A r \in RequestIds : th[r].pc = "idle"

NoListenerInFlight ==
    /\ \A r \in RequestIds : th[r].pc = "idle"
    /\ msg.pc = "idle"
    /\ init.pc = "done"

(***************************************************************************)
(* Initial state: the worker's first run after installation, with events  *)
(* budget b and initialize() in state i.  Storage is empty (both keys      *)
(* absent: `?? []`, `?? {}`) and the listeners are registered.             *)
(***************************************************************************)
InitState(b, i) ==
    /\ store = <<>>
    /\ mirror = EmptyObject
    /\ badgeText = ""
    /\ badgeColor = IF i = Initialized THEN BadgeColorOf(0) ELSE "default"
    /\ headerCache = EmptyObject
    /\ pendingMap = EmptyObject
    /\ pendingFlushTimer = NoTimer
    /\ timers = {}
    /\ init = i
    /\ th = [r \in RequestIds |-> IdleListener]
    /\ msg = IdleListener
    /\ response = NoResponse
    /\ budget = b
    /\ hist = [r \in RequestIds |-> NoHistory]
    /\ atCrash = EmptyObject
    /\ consumed = {}
    /\ finished = {}
    /\ written = {}
    /\ preClear = {}
    /\ sinceClear = NoClear

(***************************************************************************)
(* Pending headers: flush, schedule, update.                               *)
(***************************************************************************)
\* setTimeout: the id of the new timer, given the armed ones.
setTimeout(armed) ==
    CHOOSE t \in 1..(Cardinality(armed) + 1) : t \notin armed
\* clearTimeout(t)
clearTimeout(armed, t) == armed \ {t}

\* flushPendingHeaders up to its await, with `armed` the host's armed
\* timers when it is called: the timer is cancelled and the whole
\* pendingMap is sent to storage.
flushPendingHeaders(armed) ==
    /\ timers' = IF pendingFlushTimer # NoTimer
                 THEN clearTimeout(armed, pendingFlushTimer) ELSE armed
    /\ pendingFlushTimer' = NoTimer
    /\ mirror' = pendingMap

\* scheduleFlush
scheduleFlushNoClear ==
    LET t == setTimeout(timers)
    IN  /\ timers' = timers \cup {t}
        /\ pendingFlushTimer' = t
scheduleFlush ==
    LET cleared == IF pendingFlushTimer # NoTimer
                   THEN clearTimeout(timers, pendingFlushTimer) ELSE timers
        t == setTimeout(cleared)
    IN  /\ timers' = cleared \cup {t}
        /\ pendingFlushTimer' = t

\* An armed timer fires: flushPendingHeaders runs as the timer callback
\* (nothing follows its await).
TimerFires ==
    /\ \E t \in timers : flushPendingHeaders(timers \ {t})
    /\ UNCHANGED <<store, badgeText, badgeColor, headerCache, pendingMap,
                   init, th, msg, response, budget, hist, atCrash, consumed,
                   finished, written, preClear, sinceClear>>

\* updatePendingHeaders(requestId, patch), scheduleFlush included.
updatePendingHeaders(requestId, patch) ==
    LET existing == Spread(GetOrEmpty(pendingMap, requestId), patch)
    IN  /\ pendingMap' = MapSet(pendingMap, requestId, existing)
        /\ headerCache' = MapSet(headerCache, requestId, existing)
        /\ scheduleFlush

\* History kept for every header event delivered for requestId; patch is
\* the patch the listener applies (the empty object when it applies none).
HeaderEventSeen(kind, requestId, headers, patch) ==
    /\ budget.events > 0
    /\ budget' = [budget EXCEPT !.events = @ - 1]
    /\ hist' = [hist EXCEPT ![requestId] =
          [seen |-> TRUE,
           lastPrimary |-> IF kind = "primary" THEN <<headers>>
                           ELSE @.lastPrimary,
           primaryNonEmpty |-> IF kind = "primary" /\ headers # <<>>
                               THEN @.primaryNonEmpty \cup {headers}
                               ELSE @.primaryNonEmpty,
           fallback |-> IF kind = "fallback" THEN @.fallback \cup {headers}
                        ELSE @.fallback,
           merged |-> Spread(@.merged, patch),
           overlap |-> @.overlap \/ th[requestId].pc # "idle",
           during |-> IF \E a \in RequestIds \ {requestId} :
                                th[a].pc # "idle"
                         THEN Spread(@.during, patch)
                         ELSE [f \in DOMAIN @.during \ DOMAIN patch |->
                                  @.during[f]],
           beforeClear |-> [f \in DOMAIN @.beforeClear \ DOMAIN patch |->
                               @.beforeClear[f]]]]
    /\ atCrash' = MapDelete(atCrash, requestId)
    /\ consumed' = consumed \ {requestId}
    /\ finished' = finished \ {requestId}
    /\ UNCHANGED <<store, mirror, badgeText, badgeColor, init, th, msg,
                   response, written, preClear, sinceClear>>

\* chrome.webRequest.onBeforeSendHeaders listener (the primary channel).
OnBeforeSendHeaders(requestId, details) ==
    /\ HeaderEventSeen("primary", requestId,
           HeadersOrEmpty(details, "requestHeaders"),
           [requestHeaders |-> HeadersOrEmpty(details, "requestHeaders")])
    /\ updatePendingHeaders(requestId,
           [requestHeaders |-> HeadersOrEmpty(details, "requestHeaders")])

\* chrome.webRequest.onSendHeaders listener (the fallback channel).
OnSendHeaders(requestId, details) ==
    /\ HeaderEventSeen("fallback", requestId,
           HeadersOrEmpty(details, "requestHeaders"),
           IF ~HasRequestHeaders(headerCache, requestId)
           THEN [requestHeaders |-> HeadersOrEmpty(details, "requestHeaders")]
           ELSE EmptyObject)
    /\ IF ~HasRequestHeaders(headerCache, requestId)
       THEN updatePendingHeaders(requestId,
                [requestHeaders |-> HeadersOrEmpty(details, "requestHeaders")])
       ELSE UNCHANGED <<headerCache, pendingMap, pendingFlushTimer, timers>>

\* chrome.webRequest.onHeadersReceived listener.
OnHeadersReceived(requestId, details) ==
    /\ HeaderEventSeen("received", requestId,
           HeadersOrEmpty(details, "responseHeaders"),
           [responseHeaders |-> HeadersOrEmpty(details, "responseHeaders")])
    /\ updatePendingHeaders(requestId,
           [responseHeaders |-> HeadersOrEmpty(details, "responseHeaders")])

(***************************************************************************)
(* Badge.                                                                  *)
(***************************************************************************)
\* updateBadgeCount(count) up to its first await: setBadgeText is sent.
updateBadgeCountText(count) == badgeText' = BadgeTextOf(count)
\* ... from its first await to its second: setBadgeBackgroundColor is sent.
updateBadgeCountColor(count) == badgeColor' = BadgeColorOf(count)

(***************************************************************************)
(* initialize().                                                           *)
(***************************************************************************)
\* readPendingHeaders() has returned: pendingMap is replaced by what was
\* read, the cache is seeded key by key, and initializeBadge() sends its
\* read of the store.
InitAfterRead ==
    /\ init.pc = "read"
    /\ pendingMap' = init.stored
    /\ headerCache' = Spread(headerCache, init.stored)
    /\ init' = [pc |-> "get", failedRequests |-> store]
    /\ UNCHANGED <<store, mirror, badgeText, badgeColor, pendingFlushTimer, timers,
                   th, msg, response, budget, hist, atCrash, consumed,
                   finished, written, preClear, sinceClear>>

InitAfterGet ==
    /\ init.pc = "get"
    /\ updateBadgeCountText(Len(init.failedRequests))
    /\ init' = [pc |-> "text", count |-> Len(init.failedRequests)]
    /\ UNCHANGED <<store, mirror, badgeColor, headerCache, pendingMap,
                   pendingFlushTimer, timers, th, msg, response, budget, hist,
                   atCrash, consumed, finished, written, preClear, sinceClear>>

InitAfterText ==
    /\ init.pc = "text"
    /\ updateBadgeCountColor(init.count)
    /\ init' = [pc |-> "color"]
    /\ UNCHANGED <<store, mirror, badgeText, headerCache, pendingMap,
                   pendingFlushTimer, timers, th, msg, response, budget, hist,
                   atCrash, consumed, finished, written, preClear, sinceClear>>

InitAfterColor ==
    /\ init.pc = "color"
    /\ init' = [pc |-> "done"]
    /\ UNCHANGED <<store, mirror, badgeText, badgeColor, headerCache,
                   pendingMap, pendingFlushTimer, timers, th, msg, response, budget,
                   hist, atCrash, consumed, finished, written, preClear, sinceClear>>

(***************************************************************************)
(* Terminal events: onCompleted / onErrorOccurred, consumePendingHeaders   *)
(* and storeFailedRequest.  At most one terminal listener per requestId is *)
(* in flight.                                                              *)
(***************************************************************************)
\* The `details` of a terminal event.
CompletedDetails ==
    {[url |-> u, statusCode |-> c] : u \in Urls, c \in StatusCodes}
ErrorDetails == {[url |-> u] : u \in Urls}
\* Terminal events of any URL (or none); an error event may carry a
\* statusCode.
CompletedDetailsAnyUrl ==
    {[statusCode |-> 400]} \cup {[url |-> u, statusCode |-> 400] : u \in AllUrls}
ErrorDetailsAnyUrl ==
    {EmptyObject} \cup {[url |-> u] : u \in AllUrls}
        \cup {[url |-> UrlHttps, statusCode |-> c] : c \in {0, 500}}
\* Terminal events with and without a method and an error string.
WithOptional(details, field, values) ==
    {details} \cup {Spread(details, [k \in {field} |-> v]) : v \in values}
CompletedDetailsWithFields ==
    UNION {WithOptional([url |-> UrlHttps, statusCode |-> c],
                        "method", {"POST"}) : c \in {399, 404, 500}}
ErrorDetailsWithFields ==
    UNION {WithOptional(d, "error", {"net::ERR_FAILED"}) :
               d \in WithOptional([url |-> UrlHttps], "method", {"POST"})}

\* The listener for requestId ends (history: unless a header event for
\* requestId was delivered while it ran).
ListenerEnds(requestId) ==
    finished' = IF ~hist[requestId].seen
                THEN finished \cup {requestId} ELSE finished

\* The object literal passed to storeFailedRequest (fields that would be
\* undefined are absent).  `ev` is the identity of the record object: the
\* number of the terminal event it was built for.
ErrorStatusCodeOfDetails(details) ==
    IF "statusCode" \in DOMAIN details THEN details.statusCode ELSE 0
ErrorStatusCode(details) == Null
\* details.method ?? 'GET'
MethodAlwaysGet(details) == "GET"
MethodOrGet(details) ==
    IF "method" \in DOMAIN details THEN details.method ELSE "GET"
\* `HTTP ${details.statusCode}`
HttpError(statusCode) == "HTTP " \o ToString(statusCode)
\* details.error ?? 'Unknown error'
ErrorOrUnknown(details) ==
    IF "error" \in DOMAIN details THEN details.error ELSE "Unknown error"
\* The two Date.now() readings of the literal: `${details.requestId}-
\* ${Date.now()}` for id, Date.now() for timestamp.  The specifications
\* that do not observe the clock (reading Unobserved) keep the record
\* projected on its other fields.
Unobserved == 0
RecordId(requestId, now) == requestId \o "-" \o ToString(now)
Stamped(requestData, idAt, timestampAt) ==
    IF idAt = Unobserved THEN requestData
    ELSE Spread(requestData,
                [id |-> RecordId(requestData.requestId, idAt),
                 timestamp |-> timestampAt])
RequestDataOf(requestId, l, cached) ==
    Spread([requestId |-> requestId, ev |-> l.ev,
            method |-> MethodOrGet(l.details),
            statusCode |-> IF l.kind = "completed"
                           THEN l.details.statusCode
                           ELSE ErrorStatusCode(l.details),
            error |-> IF l.kind = "completed"
                      THEN HttpError(l.details.statusCode)
                      ELSE ErrorOrUnknown(l.details)],
           Spread([k \in DOMAIN l.details \cap {"url"} |-> l.details[k]],
                  cached))

\* The first turn of a terminal listener that captures the request:
\* consumePendingHeaders calls flushPendingHeaders and awaits it.
ListenerStarts(kind, requestId, details) ==
    /\ th' = [th EXCEPT ![requestId] =
                [pc |-> "flush", kind |-> kind, details |-> details,
                 ev |-> budget.events,
                 h0 |-> hist[requestId],
                 crash0 |-> GetOrEmpty(atCrash, requestId)]]
    /\ finished' = finished \ {requestId}
    /\ consumed' = consumed \ {requestId}
    /\ UNCHANGED <<store, badgeText, badgeColor, headerCache, pendingMap,
                   init, msg, response, written, preClear>>
StartListener(kind, requestId, details) ==
    /\ flushPendingHeaders(timers)
    /\ ListenerStarts(kind, requestId, details)

\* History kept for every terminal event delivered for requestId.
TerminalEventSeen(requestId) ==
    /\ budget.events > 0
    /\ th[requestId].pc = "idle"
    /\ budget' = [budget EXCEPT !.events = @ - 1]
    /\ hist' = [hist EXCEPT ![requestId] = NoHistory]
    /\ atCrash' = MapDelete(atCrash, requestId)
    /\ sinceClear' = NoClear

\* chrome.webRequest.onCompleted listener, first turn.
OnCompleted(requestId, details) ==
    /\ TerminalEventSeen(requestId)
    /\ IF Qualifies(details.statusCode)
       THEN StartListener("completed", requestId, details)
       ELSE /\ finished' = finished \cup {requestId}
            /\ UNCHANGED <<store, mirror, badgeText, badgeColor, headerCache,
                           pendingMap, pendingFlushTimer, timers, init, th, msg,
                           response, consumed, written, preClear>>

\* chrome.webRequest.onErrorOccurred listener, first turn.
OnErrorOccurred(requestId, details) ==
    /\ TerminalEventSeen(requestId)
    /\ StartListener("error", requestId, details)

\* consumePendingHeaders after `await flushPendingHeaders()`:
\* readPendingHeaders sends its read.
ConsumeAfterFlush(requestId) ==
    /\ th[requestId].pc = "flush"
    /\ th' = [th EXCEPT ![requestId] =
                Spread(@, [pc |-> "read", pending |-> mirror])]
    /\ UNCHANGED <<store, mirror, badgeText, badgeColor, headerCache,
                   pendingMap, pendingFlushTimer, timers, init, msg, response, budget,
                   hist, atCrash, consumed, finished, written, preClear, sinceClear>>

\* The rest of consumePendingHeaders (from `const cached`) with `stored`
\* as read from the mirror, then the listener's call of storeFailedRequest
\* up to its first await.
ConsumeFinishAt(requestId, stored, idAt, timestampAt) ==
    LET l == th[requestId]
        cached == GetOrEmpty(headerCache, requestId)
        requestData == Stamped(RequestDataOf(requestId, l,
                                             Spread(stored, cached)),
                               idAt, timestampAt)
    IN  /\ pendingMap' = MapDelete(pendingMap, requestId)
        /\ headerCache' = MapDelete(headerCache, requestId)
        /\ consumed' = IF ~hist[requestId].seen
                       THEN consumed \cup {requestId} ELSE consumed
        /\ IF UrlRejected(requestData)
           THEN /\ th' = [th EXCEPT ![requestId] = IdleListener]
                /\ ListenerEnds(requestId)
           ELSE /\ th' = [th EXCEPT ![requestId] =
                            [pc |-> "get", kind |-> l.kind,
                             details |-> l.details,
                             requestData |-> requestData,
                             failedRequests |-> store, h0 |-> l.h0,
                             crash0 |-> l.crash0]]
                /\ UNCHANGED finished
        /\ UNCHANGED <<store, badgeText, badgeColor, pendingFlushTimer, timers, init,
                       msg, response, budget, hist, atCrash, written,
                       preClear, sinceClear>>

ConsumeFinish(requestId, stored) ==
    ConsumeFinishAt(requestId, stored, Unobserved, Unobserved)

\* consumePendingHeaders after `await readPendingHeaders()`.
ConsumeAfterReadAt(requestId, idAt, timestampAt) ==
    /\ th[requestId].pc = "read"
    /\ LET pending == th[requestId].pending
       IN  IF requestId \in DOMAIN pending
           THEN /\ mirror' = MapDelete(pending, requestId)
                /\ th' = [th EXCEPT ![requestId] =
                            [pc |-> "write", kind |-> @.kind,
                             details |-> @.details, ev |-> @.ev,
                             h0 |-> @.h0, crash0 |-> @.crash0,
                             stored |-> pending[requestId]]]
                /\ UNCHANGED <<store, badgeText, badgeColor, headerCache,
                               pendingMap, pendingFlushTimer, timers, init, msg,
                               response, budget, hist, atCrash, consumed,
                               finished, written, preClear, sinceClear>>
           ELSE /\ ConsumeFinishAt(requestId, EmptyObject, idAt, timestampAt)
                /\ UNCHANGED mirror
ConsumeAfterRead(requestId) ==
    ConsumeAfterReadAt(requestId, Unobserved, Unobserved)

\* consumePendingHeaders after `await writePendingHeaders(pending)`.
ConsumeAfterWriteAt(requestId, idAt, timestampAt) ==
    /\ th[requestId].pc = "write"
    /\ ConsumeFinishAt(requestId, th[requestId].stored, idAt, timestampAt)
    /\ UNCHANGED mirror
ConsumeAfterWrite(requestId) ==
    ConsumeAfterWriteAt(requestId, Unobserved, Unobserved)

\* storeFailedRequest after `await chrome.storage.local.get`: the record is
\* put in front, the list is cut and sent back to storage.
StoreAfterGet(requestId) ==
    /\ th[requestId].pc = "get"
    /\ LET l == th[requestId]
           failedRequests ==
               EnforceMaxLimit(Unshift(l.failedRequests, l.requestData))
       IN  /\ store' = failedRequests
           /\ written' = written \cup {l.requestData}
           /\ th' = [th EXCEPT ![requestId] =
                        [pc |-> "set", kind |-> l.kind,
                         details |-> l.details,
                         count |-> Len(failedRequests),
                         requestData |-> l.requestData, h0 |-> l.h0,
                         crash0 |-> l.crash0]]
    /\ UNCHANGED <<mirror, badgeText, badgeColor, headerCache, pendingMap,
                   pendingFlushTimer, timers, init, msg, response, budget, hist,
                   atCrash, consumed, finished, preClear, sinceClear>>

\* storeFailedRequest after `await chrome.storage.local.set`:
\* updateBadgeCount(failedRequests.length) starts.
StoreAfterSet(requestId) ==
    /\ th[requestId].pc = "set"
    /\ updateBadgeCountText(th[requestId].count)
    /\ th' = [th EXCEPT ![requestId] = [pc |-> "text", count |-> @.count]]
    /\ UNCHANGED <<store, mirror, badgeColor, headerCache, pendingMap,
                   pendingFlushTimer, timers, init, msg, response, budget, hist,
                   atCrash, consumed, finished, written, preClear, sinceClear>>

StoreAfterText(requestId) ==
    /\ th[requestId].pc = "text"
    /\ updateBadgeCountColor(th[requestId].count)
    /\ th' = [th EXCEPT ![requestId] = [pc |-> "color"]]
    /\ UNCHANGED <<store, mirror, badgeText, headerCache, pendingMap,
                   pendingFlushTimer, timers, init, msg, response, budget, hist,
                   atCrash, consumed, finished, written, preClear, sinceClear>>

\* updateBadgeCount, storeFailedRequest and the listener return.
StoreAfterColor(requestId) ==
    /\ th[requestId].pc = "color"
    /\ th' = [th EXCEPT ![requestId] = IdleListener]
    /\ ListenerEnds(requestId)
    /\ UNCHANGED <<store, mirror, badgeText, badgeColor, headerCache,
                   pendingMap, pendingFlushTimer, timers, init, msg, response, budget,
                   hist, atCrash, consumed, written, preClear, sinceClear>>

(***************************************************************************)
(* Rejected storage and badge calls in a terminal listener.  A rejected    *)
(* call has no effect; every one is caught (lines 68, 90, 101, 181, 200).  *)
(***************************************************************************)
\* What a listener becomes when the catch of storeFailedRequest has run:
\* the error is logged, storeFailedRequest and the listener return.
StoreRethrown == [pc |-> "uncaught"]
StoreCaught == IdleListener

\* flushPendingHeaders whose set is rejected: the timer is cancelled, the
\* mirror stays.
flushPendingHeadersFails(armed) ==
    /\ timers' = IF pendingFlushTimer # NoTimer
                 THEN clearTimeout(armed, pendingFlushTimer) ELSE armed
    /\ pendingFlushTimer' = NoTimer
    /\ mirror' = mirror

\* onErrorOccurred, first turn, the set of the forced flush rejected.
OnErrorOccurredFlushFails(requestId, details) ==
    /\ TerminalEventSeen(requestId)
    /\ flushPendingHeadersFails(timers)
    /\ ListenerStarts("error", requestId, details)

\* The timer fires and the set of its flush is rejected.
TimerFiresFlushFails ==
    /\ \E t \in timers : flushPendingHeadersFails(timers \ {t})
    /\ UNCHANGED <<store, badgeText, badgeColor, headerCache, pendingMap,
                   init, th, msg, response, budget, hist, atCrash, consumed,
                   finished, written, preClear, sinceClear>>

\* consumePendingHeaders after the flush, the read of readPendingHeaders
\* rejected: its catch returns {}.
ConsumeAfterFlushReadFails(requestId) ==
    /\ th[requestId].pc = "flush"
    /\ th' = [th EXCEPT ![requestId] =
                Spread(@, [pc |-> "read", pending |-> EmptyObject])]
    /\ UNCHANGED <<store, mirror, badgeText, badgeColor, headerCache,
                   pendingMap, pendingFlushTimer, timers, init, msg, response, budget,
                   hist, atCrash, consumed, finished, written, preClear, sinceClear>>

\* consumePendingHeaders after the read, the set of writePendingHeaders
\* rejected: the mirror stays.
ConsumeAfterReadWriteFails(requestId) ==
    /\ th[requestId].pc = "read"
    /\ requestId \in DOMAIN th[requestId].pending
    /\ th' = [th EXCEPT ![requestId] =
                [pc |-> "write", kind |-> @.kind,
                 details |-> @.details, ev |-> @.ev,
                 h0 |-> @.h0, crash0 |-> @.crash0,
                 stored |-> @.pending[requestId]]]
    /\ UNCHANGED <<store, mirror, badgeText, badgeColor, headerCache,
                   pendingMap, pendingFlushTimer, timers, init, msg,
                   response, budget, hist, atCrash, consumed,
                   finished, written, preClear, sinceClear>>

\* storeFailedRequest, its get rejected: the catch runs.
StoreGetFails(requestId) ==
    /\ th[requestId].pc = "get"
    /\ th' = [th EXCEPT ![requestId] = StoreCaught]
    /\ ListenerEnds(requestId)
    /\ UNCHANGED <<store, mirror, badgeText, badgeColor, headerCache,
                   pendingMap, pendingFlushTimer, timers, init, msg, response, budget,
                   hist, atCrash, consumed, written, preClear, sinceClear>>

\* storeFailedRequest after its get, the set it sends rejected: the store
\* stays.
StoreAfterGetSetFails(requestId) ==
    /\ th[requestId].pc = "get"
    /\ th' = [th EXCEPT ![requestId] = [pc |-> "catch"]]
    /\ UNCHANGED <<store, mirror, badgeText, badgeColor, headerCache,
                   pendingMap, pendingFlushTimer, timers, init, msg, response, budget,
                   hist, atCrash, consumed, finished, written, preClear, sinceClear>>

\* The rejection of the set arrives: the catch runs.
StoreCatch(requestId) ==
    /\ th[requestId].pc = "catch"
    /\ th' = [th EXCEPT ![requestId] = StoreCaught]
    /\ ListenerEnds(requestId)
    /\ UNCHANGED <<store, mirror, badgeText, badgeColor, headerCache,
                   pendingMap, pendingFlushTimer, timers, init, msg, response, budget,
                   hist, atCrash, consumed, written, preClear, sinceClear>>

\* updateBadgeCount, setBadgeText rejected: the badge text stays, the catch
\* of updateBadgeCount runs when the rejection arrives (pc "color": the
\* last badge call is awaited).
StoreAfterSetTextFails(requestId) ==
    /\ th[requestId].pc = "set"
    /\ th' = [th EXCEPT ![requestId] = [pc |-> "color"]]
    /\ UNCHANGED <<store, mirror, badgeText, badgeColor, headerCache,
                   pendingMap, pendingFlushTimer, timers, init, msg, response, budget,
                   hist, atCrash, consumed, finished, written, preClear, sinceClear>>

\* updateBadgeCount, setBadgeBackgroundColor rejected: the colour stays.
StoreAfterTextColorFails(requestId) ==
    /\ th[requestId].pc = "text"
    /\ th' = [th EXCEPT ![requestId] = [pc |-> "color"]]
    /\ UNCHANGED <<store, mirror, badgeText, badgeColor, headerCache,
                   pendingMap, pendingFlushTimer, timers, init, msg, response, budget,
                   hist, atCrash, consumed, finished, written, preClear, sinceClear>>

ListenerFails(r) ==
    \/ ConsumeAfterFlushReadFails(r)
    \/ ConsumeAfterReadWriteFails(r)
    \/ StoreGetFails(r)
    \/ StoreAfterGetSetFails(r)
    \/ StoreCatch(r)
    \/ StoreAfterSetTextFails(r)
    \/ StoreAfterTextColorFails(r)

(***************************************************************************)
(* chrome.runtime.onMessage listener.  One message is handled at a time.   *)
(***************************************************************************)
Actions == {"getFailedRequests", "clearFailedRequests", "ping"}
StorageActions == {"getFailedRequests", "clearFailedRequests"}

\* The listener's return value: true keeps the channel open after its turn.
ListenerReturnsUndefined == FALSE
ListenerReturns == TRUE
\* The channel of a message just delivered, the listener having returned.
Channel == [pending |-> ListenerReturns, answers |-> 0, value |-> EmptyObject]
\* handleMessage().then(sendResponse) in a later turn: the value is
\* delivered if the channel was kept open.
sendResponse(value) ==
    response' = IF response.pending
                THEN [response EXCEPT !.answers = @ + 1, !.value = value]
                ELSE response

\* The payload of the default case.
UnknownActionIgnored(action) == EmptyObject
UnknownAction(action) == [error |-> <<"Unknown action: ", action>>]

\* The listener's turn: handleMessage() runs to its first await (or, for an
\* unknown action, to its end, and sendResponse follows in the same turn).
OnMessage(action) ==
    /\ budget.events > 0
    /\ msg.pc = "idle"
    /\ budget' = [budget EXCEPT !.events = @ - 1]
    /\ CASE action = "getFailedRequests" ->
                /\ msg' = [pc |-> "get", failedRequests |-> store,
                           afterClear |-> sinceClear]
                /\ response' = Channel
                /\ UNCHANGED <<store, preClear, sinceClear, hist>>
         [] action = "clearFailedRequests" ->
                /\ store' = ClearedList(store)
                /\ preClear' = preClear \cup Range(store)
                /\ sinceClear' =
                       [sinceClear EXCEPT !.received = NoTerminalListener]
                /\ msg' = [pc |-> "set"]
                /\ response' = Channel
                /\ hist' = [r \in RequestIds |->
                               [hist[r] EXCEPT !.beforeClear = hist[r].merged]]
         [] OTHER ->
                /\ response' =
                       [Channel EXCEPT
                           !.answers = 1,
                           !.value = UnknownAction(action)]
                /\ UNCHANGED <<store, msg, preClear, sinceClear, hist>>
    /\ UNCHANGED <<mirror, badgeText, badgeColor, headerCache, pendingMap,
                   pendingFlushTimer, timers, init, th, atCrash, consumed,
                   finished, written>>

\* getFailedRequests after its storage read.
ListedFirstPage(failedRequests) ==
    [failedRequests |-> IF failedRequests = <<>> THEN <<>>
                        ELSE <<Head(failedRequests)>>]
Listed(failedRequests) == [failedRequests |-> failedRequests]
MessageAfterGet ==
    /\ msg.pc = "get"
    /\ sendResponse(Listed(msg.failedRequests))
    /\ msg' = IdleListener
    /\ UNCHANGED <<store, mirror, badgeText, badgeColor, headerCache,
                   pendingMap, pendingFlushTimer, timers, init, th, budget, hist,
                   atCrash, consumed, finished, written, preClear, sinceClear>>

\* clearFailedRequests after its storage write: updateBadgeCount(0).
MessageAfterSet ==
    /\ msg.pc = "set"
    /\ updateBadgeCountText(0)
    /\ msg' = [pc |-> "text"]
    /\ UNCHANGED <<store, mirror, badgeColor, headerCache, pendingMap,
                   pendingFlushTimer, timers, init, th, response, budget, hist,
                   atCrash, consumed, finished, written, preClear, sinceClear>>

MessageAfterText ==
    /\ msg.pc = "text"
    /\ updateBadgeCountColor(0)
    /\ msg' = [pc |-> "color"]
    /\ UNCHANGED <<store, mirror, badgeText, headerCache, pendingMap,
                   pendingFlushTimer, timers, init, th, response, budget, hist,
                   atCrash, consumed, finished, written, preClear, sinceClear>>

MessageAfterColor ==
    /\ msg.pc = "color"
    /\ sendResponse([success |-> TRUE])
    /\ msg' = IdleListener
    /\ sinceClear' = [sinceClear EXCEPT !.answered = NoTerminalListener,
                                        !.whole = sinceClear.received]
    /\ UNCHANGED <<store, mirror, badgeText, badgeColor, headerCache,
                   pendingMap, pendingFlushTimer, timers, init, th, budget, hist,
                   atCrash, consumed, finished, written, preClear>>

\* The listener's turn for a message whose storage call (the get of
\* getFailedRequests, the set of clearFailedRequests) will be rejected:
\* the call has no effect on the store.
OnMessageStorageFails(action) ==
    /\ budget.events > 0
    /\ msg.pc = "idle"
    /\ budget' = [budget EXCEPT !.events = @ - 1]
    /\ msg' = [pc |-> "catch", action |-> action]
    /\ response' = Channel
    /\ UNCHANGED <<store, mirror, badgeText, badgeColor, headerCache,
                   pendingMap, pendingFlushTimer, timers, init, th, hist,
                   atCrash, consumed, finished, written, preClear, sinceClear>>

\* The rejection arrives: the catch of handleMessage returns
\* {error: String(error)}.
CaughtAsSuccess(action) == [success |-> TRUE]
Caught(action) == [error |-> <<"Error: ", action>>]
MessageCatch ==
    /\ msg.pc = "catch"
    /\ sendResponse(Caught(msg.action))
    /\ msg' = IdleListener
    /\ UNCHANGED <<store, mirror, badgeText, badgeColor, headerCache,
                   pendingMap, pendingFlushTimer, timers, init, th, budget, hist,
                   atCrash, consumed, finished, written, preClear, sinceClear>>

(***************************************************************************)
(* Termination of the worker.                                              *)
(***************************************************************************)
\* The host terminates the worker and starts it again: the module state is
\* lost, every listener in flight is dropped, storage and badge stay, and
\* initialize() of the new run sends its read of the mirror.
Restart ==
    /\ budget.restarts > 0
    /\ budget' = [budget EXCEPT !.restarts = @ - 1]
    /\ atCrash' = Spread(atCrash, headerCache)
    /\ headerCache' = EmptyObject
    /\ pendingMap' = EmptyObject
    /\ pendingFlushTimer' = NoTimer
    /\ timers' = {}
    /\ init' = StartedInit(mirror)
    /\ th' = [r \in RequestIds |-> IdleListener]
    /\ msg' = IdleListener
    /\ UNCHANGED <<store, mirror, badgeText, badgeColor, response, hist,
                   consumed, finished, written, preClear, sinceClear>>

(***************************************************************************)
(* Specifications.  Each one is the worker in an environment that delivers *)
(* some kinds of events; the actions are the same in all of them.          *)
(***************************************************************************)
ListenerResumes(r) ==
    \/ ConsumeAfterFlush(r)
    \/ ConsumeAfterRead(r)
    \/ StoreAfterGet(r)
    \/ StoreAfterSet(r)
    \/ StoreAfterText(r)
    \/ StoreAfterColor(r)

MessageResumes ==
    \/ MessageAfterGet
    \/ MessageAfterSet
    \/ MessageAfterText
    \/ MessageAfterColor

\* The store and the command channel: terminal events and messages arrive
\* after initialize() has finished; no header event is delivered.
InitStore == InitState([events |-> MaxEvents, restarts |-> 0], Initialized)
NextStore ==
    \/ \E r \in RequestIds, d \in CompletedDetails : OnCompleted(r, d)
    \/ \E r \in RequestIds, d \in ErrorDetails : OnErrorOccurred(r, d)
    \/ \E r \in RequestIds : ListenerResumes(r)
    \/ \E a \in Actions : OnMessage(a)
    \/ MessageResumes
SpecStore == InitStore /\ [][NextStore]_vars

\* Header correlation: header events and terminal events arrive after
\* initialize() has finished; no message is delivered.
InitHeaders ==
    InitState([events |-> MaxEvents, restarts |-> 0], Initialized)
NextHeaders ==
    \/ \E r \in RequestIds, d \in RequestHeaderDetails :
           OnBeforeSendHeaders(r, d)
    \/ \E r \in RequestIds, d \in RequestHeaderDetails : OnSendHeaders(r, d)
    \/ \E r \in RequestIds, d \in ResponseHeaderDetails :
           OnHeadersReceived(r, d)
    \/ TimerFires
    \/ \E r \in RequestIds, d \in CompletedDetails : OnCompleted(r, d)
    \/ \E r \in RequestIds, d \in ErrorDetails : OnErrorOccurred(r, d)
    \/ \E r \in RequestIds : ListenerResumes(r) \/ ConsumeAfterWrite(r)
SpecHeaders == InitHeaders /\ [][NextHeaders]_vars

\* Record building: terminal events of any URL arrive after initialize()
\* has finished; no header event and no message is delivered.
InitRecords ==
    InitState([events |-> MaxRecordEvents, restarts |-> 0], Initialized)
NextRecords ==
    \/ \E r \in RequestIds, d \in CompletedDetailsAnyUrl : OnCompleted(r, d)
    \/ \E r \in RequestIds, d \in ErrorDetailsAnyUrl : OnErrorOccurred(r, d)
    \/ \E r \in RequestIds : ListenerResumes(r)
SpecRecords == InitRecords /\ [][NextRecords]_vars

\* Record fields: terminal events of a valid URL that carry a method and
\* an error string or lack them.
InitFields ==
    InitState([events |-> MaxRecordEvents, restarts |-> 0], Initialized)
NextFields ==
    \/ \E r \in RequestIds, d \in CompletedDetailsWithFields :
           OnCompleted(r, d)
    \/ \E r \in RequestIds, d \in ErrorDetailsWithFields :
           OnErrorOccurred(r, d)
    \/ \E r \in RequestIds : ListenerResumes(r)
SpecFields == InitFields /\ [][NextFields]_vars

\* The clock: Date.now() never goes back and need not advance between two
\* readings.  The last reading is the latest timestamp of a record built
\* so far (records are the only readers of the clock).
RecordsBuilt ==
    written \cup {th[r].requestData :
                     r \in {q \in RequestIds : th[q].pc \in {"get", "set"}}}
LastReading ==
    LET readings == {rec.timestamp : rec \in RecordsBuilt}
    IN  IF readings = {} THEN 1
        ELSE CHOOSE t \in readings : \A u \in readings : u <= t
DateNow(last) == last..MaxClock
\* The turn of a terminal listener that builds its record, with the two
\* readings the clock gives it (id first, timestamp second).
ConsumeAfterReadNow(r) ==
    \E idAt \in DateNow(LastReading) : \E timestampAt \in DateNow(idAt) :
        ConsumeAfterReadAt(r, idAt, timestampAt)
ConsumeAfterWriteNow(r) ==
    \E idAt \in DateNow(LastReading) : \E timestampAt \in DateNow(idAt) :
        ConsumeAfterWriteAt(r, idAt, timestampAt)
\* Record ids: the store with the clock observed, terminal events of a
\* valid URL for requestIds the host may reuse, one header event channel.
InitClock ==
    InitState([events |-> MaxRecordEvents, restarts |-> 0], Initialized)
NextClock ==
    \/ \E r \in RequestIds : OnBeforeSendHeaders(r, [requestHeaders |-> HA1])
    \/ \E r \in RequestIds :
           OnCompleted(r, [url |-> UrlHttps, statusCode |-> 400])
    \/ \E r \in RequestIds : OnErrorOccurred(r, [url |-> UrlHttps])
    \/ \E r \in RequestIds : ConsumeAfterFlush(r)
    \/ \E r \in RequestIds : ConsumeAfterReadNow(r)
    \/ \E r \in RequestIds : ConsumeAfterWriteNow(r)
    \/ \E r \in RequestIds :
           \/ StoreAfterGet(r)
           \/ StoreAfterSet(r)
           \/ StoreAfterText(r)
           \/ StoreAfterColor(r)
SpecClock == InitClock /\ [][NextClock]_vars

\* Header capture: as SpecHeaders, in an environment whose primary channel
\* delivers X-A:1 or no array, whose fallback channel delivers X-A:2 or no
\* array, and whose terminal events are errors of a valid URL.
InitCapture ==
    InitState([events |-> MaxEvents, restarts |-> 0], Initialized)
NextCapture ==
    \/ \E r \in RequestIds, d \in {EmptyObject, [requestHeaders |-> HA1]} :
           OnBeforeSendHeaders(r, d)
    \/ \E r \in RequestIds, d \in {EmptyObject, [requestHeaders |-> HA2]} :
           OnSendHeaders(r, d)
    \/ \E r \in RequestIds : OnHeadersReceived(r, [responseHeaders |-> HB1])
    \/ TimerFires
    \/ \E r \in RequestIds : OnErrorOccurred(r, [url |-> UrlHttps])
    \/ \E r \in RequestIds : ListenerResumes(r) \/ ConsumeAfterWrite(r)
SpecCapture == InitCapture /\ [][NextCapture]_vars

\* Startup: the environment of SpecCapture from the moment the module was
\* evaluated on the worker's first run, initialize() still awaiting its
\* read of the mirror.
InitStartup ==
    InitState([events |-> MaxEvents, restarts |-> 0],
              StartedInit(EmptyObject))
NextStartup ==
    \/ NextCapture
    \/ InitAfterRead
    \/ InitAfterGet
    \/ InitAfterText
    \/ InitAfterColor
SpecStartup == InitStartup /\ [][NextStartup]_vars

\* Startup with two requests in progress: from the moment the module was
\* evaluated, header events on the primary and the response channel and
\* error events of a valid URL, MaxOverlapEvents of them.
InitOverlap ==
    InitState([events |-> MaxOverlapEvents, restarts |-> 0],
              StartedInit(EmptyObject))
NextOverlap ==
    \/ \E r \in RequestIds : OnBeforeSendHeaders(r, [requestHeaders |-> HA1])
    \/ \E r \in RequestIds : OnHeadersReceived(r, [responseHeaders |-> HB1])
    \/ \E r \in RequestIds : OnErrorOccurred(r, [url |-> UrlHttps])
    \/ \E r \in RequestIds : ListenerResumes(r) \/ ConsumeAfterWrite(r)
    \/ InitAfterRead
    \/ InitAfterGet
    \/ InitAfterText
    \/ InitAfterColor
SpecOverlap == InitOverlap /\ [][NextOverlap]_vars

\* Badge at startup: initializeBadge() has sent its read of a store that
\* earlier runs left with 0 to MaxStoreLength records, and publishes the
\* count.
PersistedStore(n) ==
    [i \in 1..n |-> [requestId |-> "r1", ev |-> i, statusCode |-> Null,
                     url |-> UrlHttps]]
InitBadge ==
    /\ store \in {PersistedStore(n) : n \in 0..MaxStoreLength}
    /\ init = [pc |-> "get", failedRequests |-> store]
    /\ mirror = EmptyObject
    /\ badgeText = ""
    /\ badgeColor = "default"
    /\ headerCache = EmptyObject
    /\ pendingMap = EmptyObject
    /\ pendingFlushTimer = NoTimer
    /\ timers = {}
    /\ th = [r \in RequestIds |-> IdleListener]
    /\ msg = IdleListener
    /\ response = NoResponse
    /\ budget = [events |-> 0, restarts |-> 0]
    /\ hist = [r \in RequestIds |-> NoHistory]
    /\ atCrash = EmptyObject
    /\ consumed = {}
    /\ finished = {}
    /\ written = {}
    /\ preClear = {}
    /\ sinceClear = NoClear
NextBadge ==
    \/ InitAfterGet
    \/ InitAfterText
    \/ InitAfterColor
SpecBadge == InitBadge /\ [][NextBadge]_vars

\* The command channel with a failing storage: the environment of
\* SpecStore with error events only, and messages whose storage call is
\* rejected.  In SpecChannelFair every handler in flight is resumed in the
\* end: the host answers every storage and badge call.
InitChannel == InitState([events |-> MaxEvents, restarts |-> 0], Initialized)
NextChannel ==
    \/ \E r \in RequestIds : OnErrorOccurred(r, [url |-> UrlHttps])
    \/ \E r \in RequestIds : ListenerResumes(r)
    \/ \E a \in Actions : OnMessage(a)
    \/ \E a \in StorageActions : OnMessageStorageFails(a)
    \/ MessageResumes
    \/ MessageCatch
SpecChannel == InitChannel /\ [][NextChannel]_vars
SpecChannelFair ==
    SpecChannel /\ WF_vars(MessageResumes) /\ WF_vars(MessageCatch)

\* Failing storage: header events of the primary channel and error events
\* of a valid URL, after initialize() has finished, every storage and badge
\* call of a listener or of the timer succeeding or being rejected.
InitFailures ==
    InitState([events |-> MaxFailureEvents, restarts |-> 0], Initialized)
NextFailures ==
    \/ \E r \in RequestIds : OnBeforeSendHeaders(r, [requestHeaders |-> HA1])
    \/ TimerFires
    \/ TimerFiresFlushFails
    \/ \E r \in RequestIds : OnErrorOccurred(r, [url |-> UrlHttps])
    \/ \E r \in RequestIds : OnErrorOccurredFlushFails(r, [url |-> UrlHttps])
    \/ \E r \in RequestIds : ListenerResumes(r) \/ ConsumeAfterWrite(r)
    \/ \E r \in RequestIds : ListenerFails(r)
SpecFailures == InitFailures /\ [][NextFailures]_vars

\* A clear while one request is in progress: from the moment the module
\* was evaluated, header events of the primary and the response channel
\* and error events for one requestId, and clearFailedRequests messages.
ClearRequestIds == {"r1"}
InitClear ==
    InitState([events |-> MaxClearEvents, restarts |-> 0],
              StartedInit(EmptyObject))
NextClear ==
    \/ \E r \in ClearRequestIds :
           OnBeforeSendHeaders(r, [requestHeaders |-> HA1])
    \/ \E r \in ClearRequestIds :
           OnHeadersReceived(r, [responseHeaders |-> HB1])
    \/ TimerFires
    \/ \E r \in ClearRequestIds : OnErrorOccurred(r, [url |-> UrlHttps])
    \/ \E r \in ClearRequestIds : ListenerResumes(r) \/ ConsumeAfterWrite(r)
    \/ OnMessage("clearFailedRequests")
    \/ MessageAfterSet
    \/ MessageAfterText
    \/ MessageAfterColor
    \/ InitAfterRead
    \/ InitAfterGet
    \/ InitAfterText
    \/ InitAfterColor
SpecClear == InitClear /\ [][NextClear]_vars

\* Missing header data: the environment of SpecCapture in which the host
\* delivers header events without their header array (the primary channel
\* also with one), and terminal events for requestIds with or without a
\* pending entry.
InitMissing ==
    InitState([events |-> MaxEvents, restarts |-> 0], Initialized)
NextMissing ==
    \/ \E r \in RequestIds, d \in {EmptyObject, [requestHeaders |-> HA1]} :
           OnBeforeSendHeaders(r, d)
    \/ \E r \in RequestIds : OnSendHeaders(r, EmptyObject)
    \/ \E r \in RequestIds : OnHeadersReceived(r, EmptyObject)
    \/ TimerFires
    \/ \E r \in RequestIds : OnErrorOccurred(r, [url |-> UrlHttps])
    \/ \E r \in RequestIds : ListenerResumes(r) \/ ConsumeAfterWrite(r)
SpecMissing == InitMissing /\ [][NextMissing]_vars

\* Termination: the environment of SpecCapture, from the moment the
\* module was evaluated on the first run, with the worker terminated and
\* started again at any point.
InitCrash ==
    InitState([events |-> MaxEvents, restarts |-> MaxRestarts],
              StartedInit(EmptyObject))
NextCrash ==
    \/ NextCapture
    \/ InitAfterRead
    \/ InitAfterGet
    \/ InitAfterText
    \/ InitAfterColor
    \/ Restart
SpecCrash == InitCrash /\ [][NextCrash]_vars

(***************************************************************************)
(* Claims.                                                                 *)
(***************************************************************************)
\* A terminal listener whose record has been sent to the store, for a
\* request whose header events were all handled before its terminal event
\* and after the previous terminal listener of the requestId had ended.
Stored(r) == th[r].pc = "set" /\ ~hist[r].seen /\ ~th[r].h0.overlap
\* The requestHeaders of a record; <<>> stands for an absent field too.
RequestHeadersOf(requestData) == HeadersOrEmpty(requestData, "requestHeaders")

\* C1: in every reachable state the persisted store holds at most
\* MAX_STORED_REQUESTS records, whatever terminal events, clear and list
\* messages were handled and however their turns interleaved.
C1_StoreBounded == Len(store) <= MAX_STORED_REQUESTS
\* More records were written than the store holds, and the store is full.
C1_Witness ==
    /\ Cardinality(written) > MAX_STORED_REQUESTS
    /\ Len(store) = MAX_STORED_REQUESTS

\* C2: a record that was written to the store stays there until later
\* inserts evict it from the tail or a clear removes it: as long as no clear
\* removed a record and no more records were written than the store holds,
\* every written record is in the store (in particular both records of two
\* interleaved listeners of different requestIds).
C2_WrittenRecordsStay ==
    (preClear = {} /\ Cardinality(written) <= MAX_STORED_REQUESTS)
        => written \subseteq Range(store)

\* C3: the stored record's requestHeaders is the last array delivered on
\* the primary channel if that array is non-empty, and otherwise the array
\* delivered on the fallback channel (when the fallback channel delivered
\* one array).
C3_PrimaryElseFallback ==
    \A r \in RequestIds :
        Stored(r) =>
            LET h == th[r].h0
                got == RequestHeadersOf(th[r].requestData)
            IN  IF h.lastPrimary # <<>> /\ h.lastPrimary[1] # <<>>
                THEN got = h.lastPrimary[1]
                ELSE Cardinality(h.fallback) = 1 => got \in h.fallback

\* C4: if the primary channel delivered a non-empty array before the
\* terminal event, the stored record's requestHeaders is a non-empty array
\* that the primary channel delivered.
C4_PrimaryWins ==
    \A r \in RequestIds :
        (Stored(r) /\ th[r].h0.primaryNonEmpty # {})
            => RequestHeadersOf(th[r].requestData) \in th[r].h0.primaryNonEmpty

\* C5: a fallback header-send event that finds non-empty requestHeaders in
\* the in-memory entry of its requestId leaves the cache, the pending map
\* and the timer unchanged; so when the primary channel delivered X-A:1 and
\* the fallback channel X-A:2 before the terminal event, the record stores
\* X-A:1 (the worker is not terminated and initialize() has finished
\* before the first event).
C5_FallbackStep ==
    \A r \in RequestIds, d \in RequestHeaderDetails :
        ( /\ OnSendHeaders(r, d)
          /\ r \in DOMAIN headerCache
          /\ RequestHeadersOf(headerCache[r]) # <<>> )
            => UNCHANGED <<headerCache, pendingMap, pendingFlushTimer, timers>>
C5_Scenario ==
    \A r \in RequestIds :
        ( /\ Stored(r)
          /\ th[r].h0.lastPrimary = <<HA1>>
          /\ th[r].h0.fallback = {HA2} )
            => RequestHeadersOf(th[r].requestData) = HA1
C5_FallbackNeverOverwrites == []C5_Scenario /\ [][C5_FallbackStep]_vars
\* The record of a request whose primary channel delivered X-A:1 and whose
\* fallback channel delivered X-A:2 has been stored.
C5_Witness ==
    \E r \in RequestIds :
        /\ Stored(r)
        /\ th[r].h0.lastPrimary = <<HA1>>
        /\ th[r].h0.fallback = {HA2}

\* C6: after the listener of a terminal event (a completion of any status
\* code, or an error) has finished, no entry for its requestId remains in
\* the in-memory cache or the pending map.
C6_TerminalDestroysEntry ==
    \A r \in finished :
        r \notin DOMAIN headerCache /\ r \notin DOMAIN pendingMap

\* C9: after consumePendingHeaders(requestId) has completed, neither the
\* in-memory cache nor the durable mirror holds an entry for requestId
\* (every storage write is applied when it is issued).
C9_ConsumedIsGone ==
    \A r \in consumed :
        /\ r \notin DOMAIN headerCache
        /\ r \notin DOMAIN pendingMap
        /\ r \notin DOMAIN mirror

\* C10: once a clear and the listeners that overlapped it have completed,
\* the store holds no record that was in it before the clear.
C10_ClearIsAtomic ==
    NoListenerInFlight => Range(store) \cap preClear = {}

\* C7: if the worker is terminated after a header event for a requestId was
\* handled and is started again before the terminal event of that request,
\* the record stored for the terminal event carries the headers that were
\* in the in-memory entry when the worker was terminated.
C7_HeadersSurviveRestart ==
    \A r \in RequestIds :
        Stored(r) =>
            \A f \in DOMAIN th[r].crash0 :
                /\ f \in DOMAIN th[r].requestData
                /\ th[r].requestData[f] = th[r].crash0[f]

\* C8: every header patch applied in memory for a requestId before its
\* terminal event is handled appears in the stored record, whether or not
\* the debounce timer has fired: each field of the overlay of the patches is
\* a field of the record, with the same value.
C8_PatchesReachRecord ==
    \A r \in RequestIds :
        Stored(r) =>
            \A f \in DOMAIN th[r].h0.merged :
                /\ f \in DOMAIN th[r].requestData
                /\ th[r].requestData[f] = th[r].h0.merged[f]

\* C11 as stated: a getFailedRequests issued after a clearFailedRequests
\* has answered {success: true}, with no terminal listener running or
\* started since the answer, reads (and returns) an empty list.
C11_ListAfterAnswerIsEmpty ==
    (msg.pc = "get" /\ msg.afterClear.answered) => msg.failedRequests = <<>>
\* C11: a getFailedRequests issued after a clearFailedRequests has answered
\* {success: true}, with no terminal listener running or started since that
\* clear was received, reads (and returns) an empty list.
C11_ListAfterClearIsEmpty ==
    (msg.pc = "get" /\ msg.afterClear.whole) => msg.failedRequests = <<>>
\* Such a getFailedRequests is in flight, and the clear removed a record.
C11_Witness ==
    msg.pc = "get" /\ msg.afterClear.whole /\ preClear # {}

\* A record's URL is missing, not a string, empty or internal.
HasInternalUrl(requestData) ==
    \/ "url" \notin DOMAIN requestData
    \/ requestData.url \in {UrlEmpty, UrlObject}
    \/ \E p \in {PrefixChromeExtension, PrefixChrome, PrefixAbout,
                  PrefixMozExtension} : StartsWith(requestData.url, p)
\* The number of positions of list that hold requestData.
Occurrences(list, requestData) ==
    Cardinality({i \in 1..Len(list) : list[i] = requestData})

\* C12: a completion yields a record exactly when its statusCode is at
\* least 400.  The listener of a completion below 400 changes neither the
\* store nor the badge and starts nothing; the listener of a completion of
\* 400 or more with a valid URL builds a record with that statusCode, and
\* its write adds that record to the store exactly once.
C12_Step ==
    /\ \A r \in RequestIds, d \in CompletedDetails \cup CompletedDetailsAnyUrl :
           OnCompleted(r, d) =>
               IF d.statusCode < 400
               THEN UNCHANGED <<store, badgeText, badgeColor, written, th>>
               ELSE th'[r].pc = "flush" /\ th'[r].details = d
    /\ \A r \in RequestIds :
           ( /\ th[r].pc \in {"read", "write"}
             /\ th[r].kind = "completed"
             /\ th'[r].pc \notin {"read", "write"}
             /\ ~HasInternalUrl(th[r].details) )
               => /\ th'[r].pc = "get"
                  /\ th'[r].requestData.statusCode = th[r].details.statusCode
                  /\ th'[r].requestData.statusCode >= 400
    /\ \A r \in RequestIds :
           (th[r].pc = "get" /\ th[r].kind = "completed" /\ th'[r] # th[r])
               => /\ th'[r].pc = "set"
                  /\ Occurrences(store, th[r].requestData) = 0
                  /\ Occurrences(store', th[r].requestData) = 1
C12_CompletionYieldsRecord == [][C12_Step]_vars
\* A completion of 400 has put its record in the store, and a terminal
\* event has ended that wrote no record.
C12_Witness ==
    /\ \E i \in 1..Len(store) : store[i].statusCode = 400
    /\ \E r \in finished : \A rec \in written : rec.requestId # r

\* C13: every error event with a valid URL yields exactly one stored
\* record, whatever statusCode the event carries, and the record's
\* statusCode is null.
C13_Step ==
    /\ \A r \in RequestIds, d \in ErrorDetails \cup ErrorDetailsAnyUrl :
           OnErrorOccurred(r, d) => th'[r].pc = "flush" /\ th'[r].details = d
    /\ \A r \in RequestIds :
           ( /\ th[r].pc \in {"read", "write"}
             /\ th[r].kind = "error"
             /\ th'[r].pc \notin {"read", "write"}
             /\ ~HasInternalUrl(th[r].details) )
               => /\ th'[r].pc = "get"
                  /\ th'[r].requestData.statusCode = Null
    /\ \A r \in RequestIds :
           (th[r].pc = "get" /\ th[r].kind = "error" /\ th'[r] # th[r])
               => /\ th'[r].pc = "set"
                  /\ Occurrences(store, th[r].requestData) = 0
                  /\ Occurrences(store', th[r].requestData) = 1
C13_ErrorRecords == [][C13_Step]_vars
\* The record of an error event that carried statusCode 500 has been sent
\* to the store.
C13_Witness ==
    \E r \in RequestIds :
        /\ th[r].pc = "set"
        /\ th[r].kind = "error"
        /\ "statusCode" \in DOMAIN th[r].details
        /\ th[r].details.statusCode = 500
        /\ th[r].requestData \in Range(store)

\* C14: the store never holds a record whose URL is missing, not a string
\* or internal, and no turn of the listener of a terminal event with such
\* a URL changes the store or the badge: the listener ends after
\* consumePendingHeaders.
C14_Step ==
    \A r \in RequestIds :
        /\ ( /\ th[r].pc = "idle"
              /\ th'[r].pc # "idle"
              /\ HasInternalUrl(th'[r].details) )
                => UNCHANGED <<store, badgeText, badgeColor>>
        /\ ( /\ th[r].pc \in {"flush", "read", "write"}
              /\ HasInternalUrl(th[r].details)
              /\ th'[r] # th[r] )
                => /\ UNCHANGED <<store, badgeText, badgeColor>>
                   /\ th'[r].pc \in {"read", "write", "idle"}
C14_InternalUrlsDropped ==
    /\ [](\A rec \in Range(store) \cup written : ~HasInternalUrl(rec))
    /\ [][C14_Step]_vars
\* The listener of a terminal event has ended without writing a record
\* while the store holds one.
C14_Witness ==
    /\ store # <<>>
    /\ \E r \in finished : \A rec \in written : rec.requestId # r

\* C15: an insert whose write finds the store as its read left it puts the
\* new record at index 1 (the first position), keeps the records from
\* before behind it in their order and unchanged, and, when the store held
\* MAX_STORED_REQUESTS records, drops the last of them; so the insert
\* after MAX_STORED_REQUESTS others leaves MAX_STORED_REQUESTS records.
C15_Step ==
    \A r \in RequestIds :
        ( /\ th[r].pc = "get"
          /\ th'[r] # th[r]
          /\ store = th[r].failedRequests )
            => /\ store'[1] = th[r].requestData
               /\ Len(store') = IF Len(store) < MAX_STORED_REQUESTS
                                THEN Len(store) + 1 ELSE MAX_STORED_REQUESTS
               /\ \A i \in 2..Len(store') : store'[i] = store[i - 1]
               /\ Len(store) = MAX_STORED_REQUESTS
                      => store[MAX_STORED_REQUESTS] \notin Range(store')
C15_InsertAtHead == [][C15_Step]_vars
\* One more record than the store holds was written, the store is full
\* and the first record written is no longer in it.
C15_Witness ==
    /\ Cardinality(written) = MAX_STORED_REQUESTS + 1
    /\ Len(store) = MAX_STORED_REQUESTS
    /\ written \ Range(store) # {}
    /\ preClear = {}

\* C16: in a run of header mutations with no terminal event, a mutation
\* performs no durable write of the pending map and leaves one timer
\* armed; the one write that follows, when that timer fires, contains for
\* every requestId of the run the merge of all its patches, and no timer
\* is left to cause a second write.
NoTerminalEventYet == NoTerminalListener /\ written = {} /\ finished = {}
Contains(entry, patch) ==
    \A k \in DOMAIN patch : k \in DOMAIN entry /\ entry[k] = patch[k]
C16_Step ==
    NoTerminalEventYet =>
        /\ (budget'.events < budget.events /\ th' = th)
               => /\ mirror' = mirror
                  /\ Cardinality(timers') <= 1
                  /\ pendingMap' # pendingMap => Cardinality(timers') = 1
        /\ (timers # {} /\ timers' = {} /\ UNCHANGED <<th, budget, init>>)
               => \A r \in RequestIds :
                      hist[r].seen
                          => /\ r \in DOMAIN mirror'
                             /\ Contains(mirror'[r], hist[r].merged)
C16_OneWriteOfMerge == [][C16_Step]_vars

\* C17: at most one debounce timer is armed at any time, and it is the one
\* pendingFlushTimer names; a header mutation leaves exactly that one
\* timer armed, and a flush, by the timer or forced by
\* consumePendingHeaders, leaves none.
C17_Step ==
    /\ ( /\ budget'.events < budget.events
          /\ th' = th
          /\ (pendingMap' # pendingMap \/ pendingFlushTimer' # pendingFlushTimer) )
            => timers' = {pendingFlushTimer'}
    /\ (timers' # timers /\ th' = th /\ budget' = budget)
            => timers' = {} /\ pendingFlushTimer' = NoTimer
    /\ \A r \in RequestIds :
           (th[r].pc = "idle" /\ th'[r].pc = "flush")
               => timers' = {} /\ pendingFlushTimer' = NoTimer
C17_OneTimerArmed ==
    /\ [](/\ Cardinality(timers) <= 1
          /\ (timers # {} => timers = {pendingFlushTimer}))
    /\ [][C17_Step]_vars
\* A second mutation has arrived while the timer of the first was armed
\* (nothing was flushed yet), and a timer is armed.
C17_Witness ==
    /\ timers # {}
    /\ mirror = EmptyObject
    /\ NoTerminalEventYet
    /\ \E r \in RequestIds :
           DOMAIN hist[r].merged = {"requestHeaders", "responseHeaders"}

\* C18: at most one durable write of the pending-headers mirror is in
\* flight: no two listeners are at the same time awaiting the set sent by
\* the forced flush of consumePendingHeaders (pc "flush") or the set sent
\* by its writePendingHeaders (pc "write").
MirrorWritesInFlight ==
    {r \in RequestIds : th[r].pc \in {"flush", "write"}}
C18_OneMirrorWriteInFlight == Cardinality(MirrorWritesInFlight) <= 1

\* C19: a header event for requestId b handled while the terminal
\* listener of another requestId a is in flight leaves a's pending entry,
\* a's cache entry and a's listener (the headers it has taken) as they
\* were, and is not lost: the record later stored for b carries every
\* field its patch set, with the value of the patch unless a later patch
\* for b set the field again.
C19_Step ==
    \A a \in RequestIds :
        ( /\ th[a].pc # "idle"
          /\ \E b \in RequestIds \ {a} : hist'[b] # hist[b] /\ hist'[b].seen )
            => /\ th'[a] = th[a]
               /\ GetOrEmpty(pendingMap', a) = GetOrEmpty(pendingMap, a)
               /\ GetOrEmpty(headerCache', a) = GetOrEmpty(headerCache, a)
               /\ (a \in DOMAIN pendingMap') = (a \in DOMAIN pendingMap)
               /\ (a \in DOMAIN headerCache') = (a \in DOMAIN headerCache)
C19_DisjointKeysNeverRace ==
    /\ [][C19_Step]_vars
    /\ [](\A b \in RequestIds :
            Stored(b) => Contains(th[b].requestData, th[b].h0.during))

\* C20: whenever no listener (terminal event, message, initialize) is in
\* flight, the badge text is the display text of the length of the
\* persisted store.
C20_BadgeShowsStoreLength ==
    NoListenerInFlight => badgeText = BadgeTextOf(Len(store))

\* C21: the badge text published for a count is the empty string for 0,
\* the decimal numeral of the count for 1 to 99 and "99+" for 100 and more,
\* MaxStoreLength included.
Digit(d) ==
    CASE d = 0 -> "0" [] d = 1 -> "1" [] d = 2 -> "2" [] d = 3 -> "3"
      [] d = 4 -> "4" [] d = 5 -> "5" [] d = 6 -> "6" [] d = 7 -> "7"
      [] d = 8 -> "8" [] d = 9 -> "9"
RECURSIVE Numeral(_)
Numeral(n) == IF n < 10 THEN Digit(n) ELSE Numeral(n \div 10) \o Digit(n % 10)
DisplayText(count) ==
    IF count = 0 THEN ""
    ELSE IF count <= 99 THEN Numeral(count) ELSE "99+"
C21_BadgeTextOfCount ==
    init.pc \in {"text", "color", "done"}
        => badgeText = DisplayText(Len(store))
\* initializeBadge has published the text for a store of MaxStoreLength
\* records.
C21_Witness ==
    /\ init.pc = "done"
    /\ Len(store) = MaxStoreLength
    /\ badgeText = "99+"

\* C22: while the handler of a message is in flight the channel has been
\* kept open (the listener returned true in the turn the message was
\* delivered) and no response has been delivered on it; a response is
\* delivered by a handler in flight only when its storage work has
\* completed (the read of getFailedRequests, the write and the badge calls
\* of clearFailedRequests) or failed; no message gets two responses, and
\* every message gets one in the end.
C22_Step ==
    (msg.pc # "idle" /\ response' # response)
        => /\ msg.pc \in {"get", "color", "catch"}
           /\ msg'.pc = "idle"
           /\ response'.answers = 1
C22_OneResponse ==
    /\ [](/\ msg.pc # "idle" => response.pending /\ response.answers = 0
          /\ (msg.pc = "idle" /\ response # NoResponse)
                 => response.answers = 1)
    /\ [][C22_Step]_vars
    /\ (msg.pc # "idle") ~> (msg.pc = "idle" /\ response.answers = 1)
\* clearFailedRequests has been answered {success: true}.
C22_Witness ==
    /\ msg.pc = "idle"
    /\ response = [pending |-> TRUE, answers |-> 1, value |-> [success |-> TRUE]]

\* C23: a getFailedRequests whose storage read is rejected, or a
\* clearFailedRequests whose store write is rejected, is answered with an
\* {error} payload that has neither failedRequests nor success, and no turn
\* of its handler changes the store.
C23_Step ==
    /\ (msg.pc = "idle" /\ msg'.pc = "catch") => store' = store
    /\ (msg.pc = "catch" /\ msg' # msg)
           => /\ store' = store
              /\ msg'.pc = "idle"
              /\ response'.answers = 1
              /\ DOMAIN response'.value = {"error"}
C23_FailureIsSurfaced == [][C23_Step]_vars
\* A clearFailedRequests whose write was rejected has been answered with
\* {error} while the store holds a record.
C23_Witness ==
    /\ msg.pc = "idle"
    /\ response.value = [error |-> <<"Error: ", "clearFailedRequests">>]
    /\ store # <<>>

\* C24: a message whose action is neither getFailedRequests nor
\* clearFailedRequests is answered, once, with an {error} payload that
\* names the action, and leaves the store, the cache, the pending map, the
\* mirror, the timer and the badge as they were.
C24_Step ==
    ( /\ budget'.events < budget.events
      /\ th' = th
      /\ msg.pc = "idle"
      /\ msg'.pc = "idle" )
        => /\ \E a \in Actions \ StorageActions :
                  response'.value = [error |-> <<"Unknown action: ", a>>]
           /\ response'.answers = 1
           /\ UNCHANGED <<store, headerCache, pendingMap, mirror,
                          pendingFlushTimer, timers, badgeText, badgeColor>>
C24_UnknownActionAnswered == [][C24_Step]_vars
\* "ping" has been answered while the store holds a record.
C24_Witness ==
    /\ msg.pc = "idle"
    /\ response.value = [error |-> <<"Unknown action: ", "ping">>]
    /\ store # <<>>

\* C25: with any storage or badge call of a terminal listener or of the
\* timer rejected, no rejection leaves a listener (every listener is at a
\* point of its code, never ended by an uncaught rejection); the store
\* changes only by the write of an insert that succeeded, so a rejected
\* store read or write leaves it as it was and no other record is lost; the
\* listener whose store write was rejected ends as one that stored; and
\* a listener that has ended leaves no entry of its requestId in the
\* pending map or the cache, so later events start from a clean state.
ListenerPcs ==
    {"idle", "flush", "read", "write", "get", "set", "text", "color", "catch"}
C25_Step ==
    /\ store' # store
           => \E r \in RequestIds :
                  /\ th[r].pc = "get"
                  /\ th'[r].pc = "set"
                  /\ store' = EnforceMaxLimit(Unshift(th[r].failedRequests,
                                                      th[r].requestData))
    /\ \A r \in RequestIds :
           (th[r].pc = "catch" /\ th'[r] # th[r]) => th'[r] = IdleListener
C25_FailuresAreCaught ==
    /\ [](\A r \in RequestIds :
            /\ th[r].pc \in ListenerPcs
            /\ (r \in finished /\ th[r].pc = "idle")
                   => r \notin DOMAIN pendingMap \cup DOMAIN headerCache)
    /\ [][C25_Step]_vars
\* The listener of one request ended with its store read or write
\* rejected (no record of it was written), and the record of the last
\* event, of another request, is in the store with its headers.
C25_Witness ==
    /\ \E r \in finished : \A rec \in written : rec.requestId # r
    /\ \E i \in 1..Len(store) :
           /\ store[i].ev = 1
           /\ RequestHeadersOf(store[i]) = HA1

\* C26: getFailedRequests reads the whole store and returns what it read,
\* every record at its position, and neither of its two turns changes the
\* store, the cache, the pending map, the mirror, the timer or the badge.
C26_Step ==
    /\ (msg.pc = "idle" /\ msg'.pc = "get")
           => /\ msg'.failedRequests = store
              /\ UNCHANGED <<store, headerCache, pendingMap, mirror,
                             pendingFlushTimer, timers, badgeText, badgeColor>>
    /\ (msg.pc = "get" /\ msg'.pc = "idle")
           => /\ response'.value = [failedRequests |-> msg.failedRequests]
              /\ UNCHANGED <<store, headerCache, pendingMap, mirror,
                             pendingFlushTimer, timers, badgeText, badgeColor>>
C26_ListChangesNothing == [][C26_Step]_vars
\* A full store has been listed.
C26_Witness ==
    /\ msg.pc = "idle"
    /\ Len(store) = MAX_STORED_REQUESTS
    /\ response.value = [failedRequests |-> store]

\* C27: no turn of the clearFailedRequests handler changes the cache, the
\* pending map, the mirror or the timer, and the record stored by a
\* terminal event that arrives after the clear carries the header fields
\* patched before the clear (with the value of the patch unless a later
\* patch set the field again).
C27_Step ==
    (msg # msg' /\ (msg.pc \in {"set", "text", "color"}
                       \/ msg'.pc = "set"))
        => UNCHANGED <<headerCache, pendingMap, mirror, pendingFlushTimer,
                       timers>>
C27_ClearKeepsPendingHeaders ==
    /\ [][C27_Step]_vars
    /\ [](\A r \in RequestIds :
            Stored(r) => Contains(th[r].requestData, th[r].h0.beforeClear))

\* C28: a header-receive event leaves the requestHeaders of the entry of
\* its requestId as they were, present or absent, in the pending map and
\* in the cache, and a header-send event (either channel) leaves the
\* responseHeaders as they were.
FieldOf(map, r, f) ==
    IF r \in DOMAIN map /\ f \in DOMAIN map[r] THEN <<map[r][f]>> ELSE <<>>
FieldStays(r, f) ==
    /\ FieldOf(pendingMap', r, f) = FieldOf(pendingMap, r, f)
    /\ FieldOf(headerCache', r, f) = FieldOf(headerCache, r, f)
C28_Step ==
    \A r \in RequestIds :
        /\ (\E d \in ResponseHeaderDetails : OnHeadersReceived(r, d))
               => FieldStays(r, "requestHeaders")
        /\ (\E d \in RequestHeaderDetails :
                OnBeforeSendHeaders(r, d) \/ OnSendHeaders(r, d))
               => FieldStays(r, "responseHeaders")
C28_PatchOverlaysItsField == [][C28_Step]_vars

\* C29: a step that is no step of the terminal listener of requestId r
\* (that listener is idle before and after it) removes the entry of r
\* neither from the pending map, nor from the cache, nor from the durable
\* mirror once a flush has put it there.
KeptIn(r, map, mapAfter) == r \in DOMAIN map => r \in DOMAIN mapAfter
C29_Step ==
    \A r \in RequestIds :
        (th[r].pc = "idle" /\ th'[r].pc = "idle")
            => /\ KeptIn(r, pendingMap, pendingMap')
               /\ KeptIn(r, headerCache, headerCache')
               /\ KeptIn(r, mirror, mirror')
C29_PendingEntryOutlivesOthers == [][C29_Step]_vars

\* C30: a header event whose header array is absent sets the field of its
\* patch to the empty list in the pending map and the cache (the fallback
\* channel when it patches at all), and a terminal listener, whether or
\* not its requestId has a pending entry, is always idle or awaiting a call
\* it resumes from, ends only after its badge update and reaches that only
\* by writing its record to the head of the store.
PatchedEmpty(r, f) ==
    /\ FieldOf(pendingMap', r, f) = <<<<>>>>
    /\ FieldOf(headerCache', r, f) = <<<<>>>>
TurnBefore ==
    [set |-> "get", text |-> "set", color |-> "text", idle |-> "color"]
C30_Step ==
    \A r \in RequestIds :
        /\ OnBeforeSendHeaders(r, EmptyObject)
               => PatchedEmpty(r, "requestHeaders")
        /\ (OnSendHeaders(r, EmptyObject)
                /\ ~HasRequestHeaders(headerCache, r))
               => PatchedEmpty(r, "requestHeaders")
        /\ OnHeadersReceived(r, EmptyObject)
               => PatchedEmpty(r, "responseHeaders")
        /\ (th'[r].pc # th[r].pc /\ th'[r].pc \in DOMAIN TurnBefore)
               => th[r].pc = TurnBefore[th'[r].pc]
        /\ (th[r].pc = "get" /\ th'[r].pc = "set")
               => /\ store' # <<>>
                  /\ Head(store') = th'[r].requestData
                  /\ Head(store').requestId = r
C30_MissingHeadersNeverBlock ==
    /\ [][C30_Step]_vars
    /\ [](\A r \in RequestIds :
            th[r].pc \in {"idle", "flush", "read", "write",
                          "get", "set", "text", "color"})
\* The record of a terminal event whose requestId had no pending entry is
\* at the head of the store, without header fields, while the entry of the
\* other requestId holds the empty list an absent array left there.
C30_Witness ==
    \E r \in RequestIds, o \in RequestIds :
        /\ th[r].pc = "set"
        /\ ~th[r].h0.seen
        /\ DOMAIN th[r].requestData
               \cap {"requestHeaders", "responseHeaders"} = {}
        /\ store # <<>>
        /\ Head(store) = th[r].requestData
        /\ o # r
        /\ FieldOf(pendingMap, o, "requestHeaders") = <<<<>>>>
        /\ FieldOf(headerCache, o, "responseHeaders") = <<<<>>>>

\* C31: the record a terminal listener has built carries the method of
\* its event, or "GET" when the event has none; its error text is "HTTP "
\* followed by the decimal numeral of the status code for a completion
\* event, and for an error event the error string of the event, or
\* "Unknown error" when the event has none.
ExpectedMethod(details) ==
    IF "method" \in DOMAIN details THEN details.method ELSE "GET"
ExpectedError(kind, details) ==
    IF kind = "completed" THEN "HTTP " \o Numeral(details.statusCode)
    ELSE IF "error" \in DOMAIN details THEN details.error
    ELSE "Unknown error"
C31_MethodAndErrorText ==
    \A r \in RequestIds :
        th[r].pc \in {"get", "set"}
            => /\ th[r].requestData.method = ExpectedMethod(th[r].details)
               /\ th[r].requestData.error
                      = ExpectedError(th[r].kind, th[r].details)
\* The store holds the record of a completion event with a method and the
\* record of an error event without method and error string.
C31_Witness ==
    \E i, j \in 1..Len(store) :
        /\ store[i].method = "POST"
        /\ store[i].error = "HTTP 500"
        /\ store[j].method = "GET"
        /\ store[j].error = "Unknown error"

\* C32: the entries the pending map holds while initialize() awaits its
\* read of the mirror (the patches of the header events handled meanwhile)
\* are still in the pending map, field by field, when initialize() has
\* seeded it, and every field the header events of a request set is in
\* the record stored for it.
C32_Step ==
    (init.pc = "read" /\ init'.pc # "read")
        => \A r \in DOMAIN pendingMap :
               /\ r \in DOMAIN pendingMap'
               /\ Contains(pendingMap'[r], pendingMap[r])
C32_EarlyPatchesSurvive ==
    /\ [][C32_Step]_vars
    /\ [](\A r \in RequestIds :
            Stored(r) =>
                \A f \in DOMAIN th[r].h0.merged :
                    f \in DOMAIN th[r].requestData)

\* C33: in every state in which no listener, no message handler and no
\* initialization is in flight and no debounce timer is armed, the durable
\* mirror equals the pending map.
C33_MirrorEqualsPendingMap ==
    (NoListenerInFlight /\ timers = {}) => mirror = pendingMap

\* C34: the header fields of a stored record are those the header events
\* of its own lifecycle set (the events delivered for its requestId since
\* the previous terminal event of that requestId, completions below 400
\* included), with the values they set: a record has no header field that
\* only an earlier lifecycle of the requestId supplied.
HeaderFields == {"requestHeaders", "responseHeaders"}
C34_OnlyOwnLifecycleHeaders ==
    \A r \in RequestIds :
        Stored(r) =>
            \A f \in DOMAIN th[r].requestData \cap HeaderFields :
                /\ f \in DOMAIN th[r].h0.merged
                /\ th[r].requestData[f] = th[r].h0.merged[f]

\* C35: no two positions of the store hold records with the same id.
C35_RecordIdsDistinct ==
    \A i, j \in 1..Len(store) : store[i].id = store[j].id => i = j

\* C36: whenever no listener, no message handler and no initialization
\* is in flight, the badge background is the alert colour exactly when the
\* badge text is non-empty and the grey colour exactly when it is empty.
C36_BadgeColourAgreesWithText ==
    NoListenerInFlight
        => /\ badgeColor = "#e74c3c" <=> badgeText # ""
           /\ badgeColor = "#888888" <=> badgeText = ""

\* C37: in every reachable state the header cache and the pending map hold
\* the same requestIds with the same entries.
C37_CacheEqualsPendingMap == headerCache = pendingMap

====
